---- MODULE Spec2Model ----
(***************************************************************************)
(* Model of the editing engine of rust-tab: the bounded undo/redo History  *)
(* (history.rs), the Song/Track/Beat document (song.rs), the Duration      *)
(* arithmetic the measure index needs (dur.rs) and the Cursor's navigation *)
(* and mutation primitives (cursor.rs).                                    *)
(*                                                                         *)
(* Indices are kept 0-based as in the source; a Rust Vec v is a TLA+       *)
(* sequence and v[i] is written At(v, i).  Option<T> is <<>> (None) or     *)
(* <<x>> (Some(x)).  A panic (index out of bounds, unwrap of None, usize   *)
(* underflow with overflow checks on, as in the dev profile) ends the      *)
(* process: it sets panicked and no operation runs afterwards.  Where the  *)
(* two builds differ on u16 and i16 arithmetic, and on the usize bound of  *)
(* seek_scroll, an operator takes the build as its argument checks.        *)
(***************************************************************************)
EXTENDS Integers, Sequences, FiniteSets, TLC

VARIABLES
    hist,      \* History: [size, history (front first), future]
    hop,       \* the last History call: "new", "push", "undo", "redo"
    harg,      \* the entry handed to the last push (0 before any)
    hret,      \* what the last undo/redo returned: None or Some(entry)
    hrun,      \* how many of the latest calls were pushes, in a row
    hnext,     \* the next fresh Rc<Action> handed to push
    song,      \* Song.tracks: each [string_count, beats, measure_i]
    cur,       \* the Cursor: [scroll, track, beat, string]
    panicked,  \* a call panicked: the process is gone
    op,        \* the last Cursor call made when calls are followed one by
               \* one: its name, its dire and s_bwidth arguments (0 if it has
               \* none) and the beat count before it
    act,       \* the Action recorded for the last edit ([kind |-> "None"] if none)
    phase,     \* where that edit stands: "idle", "applied", "undone", "redone"
    before,    \* the Song as it was right before the edit
    after,     \* the Song as it was right after the edit was first applied
    buffer     \* the copy Buffer: Empty, a Note, a Beat or Beats

hvars == <<hist, hop, harg, hret, hrun, hnext>>

dvars == <<song, cur, panicked, op, buffer>>

evars == <<act, phase, before, after>>

vars ==
    <<hist, hop, harg, hret, hrun, hnext, song, cur, panicked, op,
      act, phase, before, after, buffer>>

\* ----------------------------------------------------------------- bounds

\* Largest capacity a History is created with.
MaxSize == 3

\* How many actions are pushed over one run.
MaxPush == 6

\* seek_beat is not asked for an index of MaxBeats or more, and nothing is
\* pasted into a track that would then hold more than MaxBeats beats.
MaxBeats == 3

\* The view widths (s_bwidth) are 1..MaxWidth.
MaxWidth == 2

\* The counts handed to the ranged edits are 0..MaxCount.
MaxCount == 2

\* While edits are undone and redone the track is kept to EditMaxBeats beats.
EditMaxBeats == 2

\* While tracks are added and switched the tracks of the Song are kept to
\* MaxSongBeats beats together.
MaxSongBeats == 3

\* While notes and beats are copied and pasted the track is kept to
\* PasteMaxBeats beats.
PasteMaxBeats == 5

\* A loaded track holds 1..MaxTrackBeats beats.
MaxTrackBeats == 6


\* ------------------------------------------------------------ Rust values

None == <<>>

Some(x) == <<x>>

\* v[i] of a Vec or VecDeque, 0-based.
At(v, i) == v[i + 1]

\* VecDeque::get / slice::get: None when i is out of range.
Get(v, i) == IF i >= 0 /\ i < Len(v) THEN Some(v[i + 1]) ELSE None

\* v[from..to), 0-based, the half-open range of Rust.
Slice(v, from, to) == SubSeq(v, from + 1, to)

Min(a, b) == IF a < b THEN a ELSE b

Max(a, b) == IF a > b THEN a ELSE b

\* -------------------------------------------------------------- Duration

\* u16: the products and sums of Duration arithmetic are taken modulo 2^16.
U16 == 65536

\* The greatest i in 1..min(num, den) dividing both, as the descending search
\* of Duration::new finds it.
CommonDivisor(num, den) ==
    CHOOSE i \in 1..Min(num, den) :
        /\ num % i = 0 /\ den % i = 0
        /\ \A j \in (i + 1)..Min(num, den) : ~(num % j = 0 /\ den % j = 0)

\* Duration::new(num, den) for den # 0 (den = 0 panics).
Duration_new(num, den) ==
    IF num = 0 THEN <<0, 1>>
    ELSE IF den = 1 \/ num = 1 THEN <<num, den>>
    ELSE LET i == CommonDivisor(num, den) IN <<num \div i, den \div i>>

\* impl Add for Duration
Duration_add(a, b) ==
    Duration_new((a[1] * b[2] + b[1] * a[2]) % U16, (a[2] * b[2]) % U16)

\* impl Add for Duration does not return.  With overflow checks (checks, the
\* dev profile) the first product or sum past u16 panics; without them (the
\* release profile) the values wrap and Duration::new panics on a
\* denominator that wrapped to 0.
Duration_add_panics(a, b, checks) ==
    LET x == a[1] * b[2]
        y == b[1] * a[2]
        d == a[2] * b[2]
    IN  IF checks THEN x >= U16 \/ y >= U16 \/ x + y >= U16 \/ d >= U16
        ELSE d % U16 = 0

\* impl Sub for Duration: saturating_sub on the cross products.
Duration_sub(a, b) ==
    LET x == (a[1] * b[2]) % U16
        y == (b[1] * a[2]) % U16
    IN  Duration_new(IF x > y THEN x - y ELSE 0, (a[2] * b[2]) % U16)

\* impl PartialEq for Duration
Duration_eq(a, b) ==
    IF a[2] = b[2] THEN a[1] = b[1]
    ELSE (a[1] * b[2]) % U16 = (b[1] * a[2]) % U16

\* impl PartialOrd for Duration: a > b
Duration_gt(a, b) ==
    IF a[2] = b[2] THEN a[1] > b[1]
    ELSE (a[1] * b[2]) % U16 > (b[1] * a[2]) % U16

\* What a Duration function gives back: a value, an error value, or a panic.
Ok(d) == <<"Ok", d>>

\* Err(Error::InvalidOp(..)) and Err(Error::ParseError(..))
InvalidOp == <<"Err", "InvalidOp">>

ParseError == <<"Err", "ParseError">>

Panic == <<"Panic">>

\* A u16 result x >= 0 computed exactly: with overflow checks (checks) a
\* result past u16 panics, written -1; without them it wraps.
U16Of(x, checks) == IF x >= U16 THEN (IF checks THEN -1 ELSE x % U16) ELSE x

\* Duration::new on u16 results: a panic before the call (-1), or den = 0.
Checked_new(num, den) ==
    IF num < 0 \/ den <= 0 THEN Panic ELSE Ok(Duration_new(num, den))

\* Duration::new_checked
new_checked(num, den) == IF den = 0 THEN InvalidOp ELSE Ok(Duration_new(num, den))

\* Duration::new_pow2
RECURSIVE new_pow2(_, _)
new_pow2(num, den) ==
    IF den > 1 /\ num % 2 = 0 THEN new_pow2(num \div 2, den \div 2) ELSE <<num, den>>

\* Duration::whole
whole(count) == <<count, 1>>

\* Duration::half, quarter, eighth, sixteenth, thirtysecond, sixtyfourth:
\* new_pow2(count, den) for den = 2, 4, 8, 16, 32, 64.
pow2_note(count, den) == new_pow2(count, den)

\* Duration::tuplet
tuplet(a, t, checks) == Checked_new(U16Of(a[1] * 2, checks), U16Of(a[2] * t, checks))

\* Duration::dotted
dotted(a, checks) == Checked_new(U16Of(a[1] * 3, checks), U16Of(a[2] * 2, checks))

\* Duration::add_basic: Self(..) without Duration::new.
add_basic(a, b, checks) ==
    LET x == U16Of(a[1] * b[2], checks)
        y == U16Of(b[1] * a[2], checks)
        n == IF x < 0 \/ y < 0 THEN -1 ELSE U16Of(x + y, checks)
        d == U16Of(a[2] * b[2], checks)
    IN  IF n < 0 \/ d < 0 THEN Panic ELSE Ok(<<n, d>>)

\* impl Add for Duration, with its panics.
add(a, b, checks) ==
    IF Duration_add_panics(a, b, checks) THEN Panic ELSE Ok(Duration_add(a, b))

\* impl Sub for Duration does not return (as for Add).
Duration_sub_panics(a, b, checks) ==
    LET x == a[1] * b[2]
        y == b[1] * a[2]
        d == a[2] * b[2]
    IN  IF checks THEN x >= U16 \/ y >= U16 \/ d >= U16
        ELSE d % U16 = 0

\* impl Sub for Duration, with its panics.
sub(a, b, checks) ==
    IF Duration_sub_panics(a, b, checks) THEN Panic ELSE Ok(Duration_sub(a, b))

\* impl Mul<u16> for Duration
mul(a, rhs, checks) == Checked_new(U16Of(a[1] * rhs, checks), a[2])

\* impl Div<u16> for Duration
div(a, rhs, checks) == Checked_new(a[1], U16Of(a[2] * rhs, checks))

\* The u16 cross products self.0 * other.1 and other.0 * self.1 of a
\* comparison, -1 for one that panics.
Cross(a, b, checks) == <<U16Of(a[1] * b[2], checks), U16Of(b[1] * a[2], checks)>>

\* u16::cmp
Ordering(x, y) == IF x < y THEN "Less" ELSE IF x > y THEN "Greater" ELSE "Equal"

\* impl Ord for Duration (cmp), and impl PartialOrd (partial_cmp, the same
\* in Some), with their panics.
cmp(a, b, checks) ==
    IF a[2] = b[2] THEN Ok(Ordering(a[1], b[1]))
    ELSE LET x == Cross(a, b, checks)
         IN  IF x[1] < 0 \/ x[2] < 0 THEN Panic ELSE Ok(Ordering(x[1], x[2]))

\* impl PartialEq for Duration, with its panics.
eq(a, b, checks) ==
    IF a[2] = b[2] THEN Ok(a[1] = b[1])
    ELSE LET x == Cross(a, b, checks)
         IN  IF x[1] < 0 \/ x[2] < 0 THEN Panic ELSE Ok(x[1] = x[2])

\* r is a value and f of it is taken; an error or a panic goes through.
Then(r, f(_)) == IF r[1] = "Ok" THEN f(r[2]) ELSE r

\* Duration::from_str on a text that matches the regex: count, base and
\* tuplet are the numbers their digits spell (count and tuplet None when
\* absent), is_dotted whether the dot is there.  Digits that spell more than
\* u16 holds fail to parse (ParseError); a base of 0 is the InvalidOp of
\* new_checked, passed on by `?`.
from_str(count, base, is_dotted, tup, checks) ==
    IF (count # None /\ count[1] >= U16) \/ base >= U16 \/ (tup # None /\ tup[1] >= U16)
    THEN ParseError
    ELSE LET Dot(d)  == IF is_dotted THEN dotted(d, checks) ELSE Ok(d)
             Num(d)  == IF count # None THEN mul(d, count[1], checks) ELSE Ok(d)
             Twice(d) == mul(d, 2, checks)
             Tup(d)  == IF tup # None THEN Then(div(d, tup[1], checks), Twice) ELSE Ok(d)
         IN  Then(Then(Then(new_checked(1, base), Dot), Num), Tup)

\* ------------------------------------------------------ Note, Beat, Track

\* Note::Fret(n)
Fret(n) == <<"Fret", n>>

\* Note::X
NoteX == <<"X">>

\* Beat::new(dur)
Beat_new(dur) == [dur |-> dur, notes |-> <<>>]

\* Beat::copy_duration
copy_duration(beat) == Beat_new(beat.dur)

\* The index (1-based) of the first pair of notes on the string, 0 if none.
FirstOnString(notes, string) ==
    IF \E i \in 1..Len(notes) : notes[i][1] = string
    THEN CHOOSE i \in 1..Len(notes) :
            /\ notes[i][1] = string
            /\ \A j \in 1..(i - 1) : notes[j][1] # string
    ELSE 0

\* Beat::copy_note
Beat_copy_note(beat, string) ==
    LET i == FirstOnString(beat.notes, string)
    IN  IF i = 0 THEN None ELSE Some(beat.notes[i][2])

\* A set_note that appends without looking for the string.
set_note_always_pushes(beat, string, note) ==
    [beat EXCEPT !.notes = Append(@, <<string, note>>)]

\* Beat::set_note: overwrite the first pair on the string, else push.
Beat_set_note(beat, string, note) ==
    LET i == FirstOnString(beat.notes, string)
    IN  IF i = 0
        THEN [beat EXCEPT !.notes = Append(@, <<string, note>>)]
        ELSE [beat EXCEPT !.notes[i] = <<string, note>>]

\* Vec::swap_remove(i), i 1-based: the last element takes the place of the
\* removed one.
swap_remove(v, i) ==
    LET n == Len(v)
    IN  IF i = n THEN SubSeq(v, 1, n - 1)
        ELSE [SubSeq(v, 1, n - 1) EXCEPT ![i] = v[n]]

\* A del_note that finds the string and leaves its pair in place.
del_note_keeps(beat, string) ==
    LET i == FirstOnString(beat.notes, string)
    IN  IF i = 0 THEN beat ELSE [beat EXCEPT !.notes = @]

\* A del_note that finds the string and removes the last pair.
del_note_pops(beat, string) ==
    LET i == FirstOnString(beat.notes, string)
    IN  IF i = 0 THEN beat ELSE [beat EXCEPT !.notes = SubSeq(@, 1, Len(@) - 1)]

\* Beat::del_note
Beat_del_note(beat, string) ==
    LET i == FirstOnString(beat.notes, string)
    IN  IF i = 0 THEN beat ELSE [beat EXCEPT !.notes = swap_remove(@, i)]

\* The loop of Track::update_measures from beat i (1-based) on, with the
\* running total it has there.
RECURSIVE measures_from(_, _, _)
measures_from(beats, i, total) ==
    IF i > Len(beats) THEN <<>>
    ELSE LET mlen == Duration_new(1, 1)
             mark == Duration_eq(total, mlen)
             rest == IF mark THEN Duration_new(0, 1)
                     ELSE IF Duration_gt(total, mlen) THEN Duration_sub(total, mlen)
                     ELSE total
         IN  <<mark>> \o measures_from(beats, i + 1, Duration_add(rest, beats[i].dur))

\* The loop of Track::update_measures panics in total + beat.dur, at beat i
\* or later (the comparisons with and the subtraction of 1/1 multiply by 1
\* and cannot overflow).
RECURSIVE measures_panic(_, _, _, _)
measures_panic(beats, i, total, checks) ==
    IF i > Len(beats) THEN FALSE
    ELSE LET mlen == Duration_new(1, 1)
             rest == IF Duration_eq(total, mlen) THEN Duration_new(0, 1)
                     ELSE IF Duration_gt(total, mlen) THEN Duration_sub(total, mlen)
                     ELSE total
         IN  \/ Duration_add_panics(rest, beats[i].dur, checks)
             \/ measures_panic(beats, i + 1, Duration_add(rest, beats[i].dur), checks)

\* An update_measures whose running total starts at 0/1.
update_measures_from_zero(track) ==
    [track EXCEPT !.measure_i = measures_from(track.beats, 1, Duration_new(0, 1))]

\* Track::update_measures (on beats whose running total stays within u16)
update_measures(track) ==
    [track EXCEPT !.measure_i = measures_from(track.beats, 1, Duration_new(1, 1))]

\* Track::new
Track_new ==
    [string_count |-> 6, beats |-> <<Beat_new(Duration_new(1, 1))>>, measure_i |-> <<>>]

\* Song::new: song.tracks
Song_new == <<Track_new>>

\* ---------------------------------------------------------------- Cursor

\* Cursor::new
Cursor_new == [scroll |-> 0, track |-> 0, beat |-> 0, string |-> 0]

\* Ord::clamp for lo <= hi.
clamp(x, lo, hi) == IF x < lo THEN lo ELSE IF x > hi THEN hi ELSE x

\* Cursor::track
track(c, sg) == sg[c.track + 1]

\* Cursor::beats
beats(c, sg) == sg[c.track + 1].beats

\* Cursor::beats_mut, assigned as a whole.
with_beats(c, sg, bs) == [sg EXCEPT ![c.track + 1].beats = bs]

\* A beat_mut that reaches into the first track whatever c.track is.
with_beat_of_first_track(c, sg, b) == [sg EXCEPT ![1].beats[c.beat + 1] = b]

\* Cursor::beat_mut, assigned (c.beat is a valid index).
with_beat(c, sg, b) == [sg EXCEPT ![c.track + 1].beats[c.beat + 1] = b]

\* An update of the measure index of every track of the Song.
track_update_all(c, sg) == [t \in 1..Len(sg) |-> update_measures(sg[t])]

\* self.track_mut(sg).update_measures()
track_update(c, sg) == [sg EXCEPT ![c.track + 1] = update_measures(@)]

\* What a call leaves behind: the Song, the Cursor, and whether it panicked
\* instead of returning.
Returned(sg, c) == [song |-> sg, cur |-> c, panic |-> FALSE]

Panicked(sg, c) == [song |-> sg, cur |-> c, panic |-> TRUE]

\* i16: `as i16` of a u16 and the sums of seek_string are taken in 16 bits,
\* -I16 .. I16 - 1.
I16 == 32768

\* x as i16, for a u16 x.
AsI16(x) == IF x >= I16 THEN x - U16 ELSE x

\* A seek_string that clamps at 0 only.
seek_string_no_upper(c, sg, dire, checks) ==
    Returned(sg, [c EXCEPT !.string = Max(AsI16(c.string) + dire, 0)])

\* Cursor::seek_string.  self.string as i16 + dire is an i16 sum: past the
\* i16 range it panics with overflow checks (checks) and wraps without them.
\* i16::clamp panics when its upper bound is below 0.
seek_string(c, sg, dire, checks) ==
    LET sum == AsI16(c.string) + dire
        new == IF sum >= I16 THEN sum - U16 ELSE IF sum < -I16 THEN sum + U16 ELSE sum
        hi  == AsI16(track(c, sg).string_count) - 1
    IN  IF (checks /\ new # sum) \/ hi < 0
        THEN Panicked(sg, c)
        ELSE Returned(sg, [c EXCEPT !.string = clamp(new, 0, hi)])

\* A scroll_to_cursor that slides the window one beat too far to the right.
scroll_to_cursor_off_by_one(c, s_bwidth) ==
    LET s1 == IF c.scroll > c.beat THEN c.beat ELSE c.scroll
    IN  [c EXCEPT !.scroll = IF s1 + s_bwidth - 1 < c.beat
                             THEN c.beat - (s_bwidth - 1) + 1
                             ELSE s1]

\* Cursor::scroll_to_cursor, s_bwidth >= 1
scroll_to_cursor(c, s_bwidth) ==
    LET s1 == IF c.scroll > c.beat THEN c.beat ELSE c.scroll
    IN  [c EXCEPT !.scroll = IF s1 + s_bwidth - 1 < c.beat
                             THEN c.beat - (s_bwidth - 1)
                             ELSE s1]

\* Cursor::cursor_to_scroll, s_bwidth >= 1
cursor_to_scroll(c, s_bwidth) ==
    [c EXCEPT !.beat = clamp(c.beat, c.scroll, c.scroll + s_bwidth - 1)]

\* n pushes of last().copy_duration() onto a non-empty Vec of beats.
RECURSIVE grow(_, _)
grow(bs, n) ==
    IF n <= 0 THEN bs ELSE grow(Append(bs, copy_duration(bs[Len(bs)])), n - 1)

\* A seek_beat whose growth stops one beat short of the target index.
seek_beat_grows_short(c, sg, dire, s_bwidth) ==
    LET new == Max(c.beat + dire, 0)
        bs  == beats(c, sg)
    IN  IF new >= Len(bs) /\ Len(bs) = 0
        THEN Panicked(sg, c)
        ELSE LET grown == grow(bs, new - Len(bs))
                 c1    == scroll_to_cursor([c EXCEPT !.beat = new], s_bwidth)
             IN  Returned(track_update(c1, with_beats(c1, sg, grown)), c1)

\* Cursor::seek_beat: beats.last().unwrap() panics on an empty track.
seek_beat(c, sg, dire, s_bwidth) ==
    LET new == Max(c.beat + dire, 0)
        bs  == beats(c, sg)
    IN  IF new >= Len(bs) /\ Len(bs) = 0
        THEN Panicked(sg, c)
        ELSE LET grown == grow(bs, new - Len(bs) + 1)
                 c1    == scroll_to_cursor([c EXCEPT !.beat = new], s_bwidth)
             IN  Returned(track_update(c1, with_beats(c1, sg, grown)), c1)

\* Cursor::seek_start
seek_start(c, sg) == Returned(sg, [c EXCEPT !.beat = 0, !.scroll = 0])

\* Cursor::seek_end: beats.len() - 1 underflows on an empty track.
seek_end(c, sg, s_bwidth) ==
    IF Len(beats(c, sg)) = 0
    THEN Panicked(sg, c)
    ELSE Returned(sg,
            scroll_to_cursor([c EXCEPT !.beat = Len(beats(c, sg)) - 1], s_bwidth))

\* The while loop of seek_next_measure: l[b] is read only for b < m.
RECURSIVE next_walk(_, _, _)
next_walk(l, b, m) ==
    IF b < m /\ ~At(l, b) THEN next_walk(l, b + 1, m) ELSE b

\* Cursor::seek_next_measure: l.len() - 1 underflows on an empty index.
seek_next_measure(c, sg, s_bwidth) ==
    LET l == track(c, sg).measure_i
    IN  IF Len(l) = 0
        THEN Panicked(sg, c)
        ELSE LET m == Len(l) - 1
                 b == IF c.beat < m THEN next_walk(l, c.beat + 1, m) ELSE c.beat
             IN  Returned(sg, scroll_to_cursor([c EXCEPT !.beat = b], s_bwidth))

\* The while loop of seek_prev_measure; -1 stands for the panic of reading
\* l[b] with b out of range.
RECURSIVE prev_walk(_, _)
prev_walk(l, b) ==
    IF b > 0
    THEN IF b >= Len(l) THEN -1
         ELSE IF ~At(l, b) THEN prev_walk(l, b - 1) ELSE b
    ELSE b

\* Cursor::seek_prev_measure
seek_prev_measure(c, sg, s_bwidth) ==
    LET l == track(c, sg).measure_i
        b == IF c.beat > 0 THEN prev_walk(l, c.beat - 1) ELSE c.beat
    IN  IF b < 0
        THEN Panicked(sg, c)
        ELSE Returned(sg, scroll_to_cursor([c EXCEPT !.beat = b], s_bwidth))

\* Cursor::seek_scroll: beats.len() - 1 underflows on an empty track.  With
\* overflow checks (checks) that panics; without them it wraps to usize::MAX
\* and new.min(..) is new.
seek_scroll(c, sg, dire, s_bwidth, checks) ==
    LET new == Max(c.scroll + dire, 0)
        n   == Len(beats(c, sg))
    IN  IF n = 0 /\ checks
        THEN Panicked(sg, c)
        ELSE LET c1 == [c EXCEPT !.scroll = IF n = 0 THEN new ELSE Min(new, n - 1)]
             IN  Returned(sg, cursor_to_scroll(c1, s_bwidth))

\* beats[self.beat] panics when self.beat is no index of the track.
NoBeat(c, sg) == c.beat >= Len(beats(c, sg))

\* A set_duration that leaves the measure index as it was.
set_duration_keeps_index(c, sg, dur) ==
    IF NoBeat(c, sg) THEN Panicked(sg, c)
    ELSE Returned(with_beat(c, sg, [At(beats(c, sg), c.beat) EXCEPT !.dur = dur]), c)

\* Cursor::set_duration
set_duration(c, sg, dur) ==
    IF NoBeat(c, sg) THEN Panicked(sg, c)
    ELSE Returned(
            track_update(c, with_beat(c, sg, [At(beats(c, sg), c.beat) EXCEPT !.dur = dur])),
            c)

\* Cursor::set_note
Cursor_set_note(c, sg, note) ==
    IF NoBeat(c, sg) THEN Panicked(sg, c)
    ELSE Returned(
            with_beat(c, sg, Beat_set_note(At(beats(c, sg), c.beat), c.string, note)),
            c)

\* Cursor::set_notes
set_notes(c, sg, notes) ==
    IF NoBeat(c, sg) THEN Panicked(sg, c)
    ELSE Returned(with_beat(c, sg, [At(beats(c, sg), c.beat) EXCEPT !.notes = notes]), c)

\* Cursor::clear_note
clear_note(c, sg) ==
    IF NoBeat(c, sg) THEN Panicked(sg, c)
    ELSE Returned(
            with_beat(c, sg, Beat_del_note(At(beats(c, sg), c.beat), c.string)),
            c)

\* Cursor::clear_beat
clear_beat(c, sg) == set_notes(c, sg, <<>>)

\* Cursor::clear_beats: the loop clears beat by beat and panics at the first
\* index past the end, the beats before it already cleared.
clear_beats(c, sg, count) ==
    LET bs   == beats(c, sg)
        last == Min(c.beat + count, Len(bs))
        done == [i \in 1..Len(bs) |->
                    IF i > c.beat /\ i <= last THEN [bs[i] EXCEPT !.notes = <<>>] ELSE bs[i]]
    IN  [song |-> with_beats(c, sg, done), cur |-> c,
         panic |-> count > 0 /\ c.beat + count > Len(bs)]

\* Cursor::delete_beat: Vec::remove panics when the index is out of range.
delete_beat(c, sg) ==
    LET bs == beats(c, sg)
    IN  IF c.beat >= Len(bs) THEN Panicked(sg, c)
        ELSE Returned(
                track_update(c, with_beats(c, sg,
                    Slice(bs, 0, c.beat) \o Slice(bs, c.beat + 1, Len(bs)))),
                c)

\* Cursor::replace_beats: Vec::splice checks the range before it changes
\* anything.
replace_beats(c, sg, src) ==
    LET bs == beats(c, sg)
    IN  IF c.beat + Len(src) > Len(bs) THEN Panicked(sg, c)
        ELSE Returned(
                track_update(c, with_beats(c, sg,
                    Slice(bs, 0, c.beat) \o src \o Slice(bs, c.beat + Len(src), Len(bs)))),
                c)

\* Cursor::delete_beats: splice(beat..beat + count, [])
delete_beats(c, sg, count) ==
    LET bs == beats(c, sg)
    IN  IF c.beat + count > Len(bs) THEN Panicked(sg, c)
        ELSE Returned(
                track_update(c, with_beats(c, sg,
                    Slice(bs, 0, c.beat) \o Slice(bs, c.beat + count, Len(bs)))),
                c)

\* Cursor::clone_beats_slice / beats_slice: None when the range is not inside
\* the track.
clone_beats_slice(c, sg, count) ==
    LET bs == beats(c, sg)
    IN  IF c.beat + count > Len(bs) THEN None
        ELSE Some(Slice(bs, c.beat, c.beat + count))

\* An insert_beat that, when not in place, puts the beat behind the last one
\* instead of at the cursor.
insert_beat_at_end(c, sg, in_place, beat) ==
    LET bs == beats(c, sg)
    IN  IF in_place
        THEN IF c.beat >= Len(bs) THEN Panicked(sg, c)
             ELSE Returned(track_update(c, with_beat(c, sg, beat)), c)
        ELSE IF c.beat > Len(bs) THEN Panicked(sg, c)
             ELSE Returned(track_update(c, with_beats(c, sg, Append(bs, beat))), c)

\* Cursor::insert_beat
insert_beat(c, sg, in_place, beat) ==
    LET bs == beats(c, sg)
    IN  IF in_place
        THEN IF c.beat >= Len(bs) THEN Panicked(sg, c)
             ELSE Returned(track_update(c, with_beat(c, sg, beat)), c)
        ELSE IF c.beat > Len(bs) THEN Panicked(sg, c)
             ELSE Returned(
                    track_update(c, with_beats(c, sg,
                        Slice(bs, 0, c.beat) \o <<beat>> \o Slice(bs, c.beat, Len(bs)))),
                    c)

\* An insert_beats that leaves the beat at the cursor in the track even when
\* in place.
insert_beats_never_removes(c, sg, in_place, src) ==
    LET bs == beats(c, sg)
    IN  IF c.beat > Len(bs)
        THEN Panicked(sg, c)
        ELSE Returned(
                track_update(c, with_beats(c, sg,
                    Slice(bs, 0, c.beat) \o src \o Slice(bs, c.beat, Len(bs)))),
                c)

\* Cursor::insert_beats: remove(beat) when in place, then split_off(beat),
\* extend(src), extend(after).
insert_beats(c, sg, in_place, src) ==
    LET bs   == beats(c, sg)
        dest == IF in_place /\ c.beat < Len(bs)
                THEN Slice(bs, 0, c.beat) \o Slice(bs, c.beat + 1, Len(bs))
                ELSE bs
    IN  IF (in_place /\ c.beat >= Len(bs)) \/ c.beat > Len(dest)
        THEN Panicked(sg, c)
        ELSE Returned(
                track_update(c, with_beats(c, sg,
                    Slice(dest, 0, c.beat) \o src \o Slice(dest, c.beat, Len(dest)))),
                c)

\* ---------------------------------------------------------------- Buffer

Buffer_Empty == [kind |-> "Empty"]

Buffer_Note(note) == [kind |-> "Note", note |-> note]

Buffer_Beat(beat) == [kind |-> "Beat", beat |-> beat]

Buffer_Beats(bs) == [kind |-> "Beats", beats |-> bs]

\* Cursor::clone_chord
clone_chord(c, sg) == At(beats(c, sg), c.beat).notes

\* Cursor::copy_note (the cursor is on a beat)
copy_note(c, sg) ==
    LET n == Beat_copy_note(At(beats(c, sg), c.beat), c.string)
    IN  IF n # None THEN Buffer_Note(n[1]) ELSE Buffer_Empty

\* Cursor::copy_beat (the cursor is on a beat)
copy_beat(c, sg) == Buffer_Beat(At(beats(c, sg), c.beat))

\* A copy_beats that gives the beats up to the end of the track when the
\* range runs past it.
copy_beats_clips(c, sg, count) ==
    LET bs == beats(c, sg)
    IN  IF c.beat > Len(bs) THEN Buffer_Empty
        ELSE Buffer_Beats(Slice(bs, c.beat, Min(c.beat + count, Len(bs))))

\* Cursor::copy_beats
copy_beats(c, sg, count) ==
    LET bs == clone_beats_slice(c, sg, count)
    IN  IF bs # None THEN Buffer_Beats(bs[1]) ELSE Buffer_Empty

\* A paste that overwrites the beat at the cursor whatever in_place says.
paste_once_overwrites(c, sg, buf, in_place) ==
    CASE buf.kind = "Empty" -> Returned(sg, c)
      [] buf.kind = "Note"  -> Cursor_set_note(c, sg, buf.note)
      [] buf.kind = "Beat"  -> insert_beat(c, sg, TRUE, buf.beat)
      [] buf.kind = "Beats" -> insert_beats(c, sg, in_place, buf.beats)

\* App::paste_once: the Buffer is pasted at the cursor; the changes to the
\* beats are those of Cursor::set_note, insert_beat and insert_beats.
paste_once(c, sg, buf, in_place) ==
    CASE buf.kind = "Empty" -> Returned(sg, c)
      [] buf.kind = "Note"  -> Cursor_set_note(c, sg, buf.note)
      [] buf.kind = "Beat"  -> insert_beat(c, sg, in_place, buf.beat)
      [] buf.kind = "Beats" -> insert_beats(c, sg, in_place, buf.beats)

\* ---------------------------------------------------------------- Action

\* No edit is recorded.
NoAction == [kind |-> "None"]

\* Action::set_duration
Action_set_duration(c, old, new) ==
    [kind |-> "SetDuration", cur |-> c, old |-> old, new |-> new]

\* Action::set_note
Action_set_note(c, old, new) == [kind |-> "SetNote", cur |-> c, old |-> old, new |-> new]

\* Action::clear_beat
Action_clear_beat(c, old) == [kind |-> "ClearBeat", cur |-> c, old |-> old]

\* Action::clear_beats
Action_clear_beats(c, old) == [kind |-> "ClearBeats", cur |-> c, old |-> old]

\* Action::delete_beat
Action_delete_beat(c, old) == [kind |-> "DeleteBeat", cur |-> c, old |-> old]

\* Action::delete_beats
Action_delete_beats(c, old) == [kind |-> "DeleteBeats", cur |-> c, old |-> old]

\* Action::paste_note
Action_paste_note(c, old, buf) == [kind |-> "PasteNote", cur |-> c, old |-> old, buf |-> buf]

\* Action::paste_beat
Action_paste_beat(c, old, buf) == [kind |-> "PasteBeat", cur |-> c, old |-> old, buf |-> buf]

\* Action::paste_beats
Action_paste_beats(c, old, buf) == [kind |-> "PasteBeats", cur |-> c, old |-> old, buf |-> buf]

\* The forward effect of an Action on the Song, through the Cursor it
\* carries: the edit itself, and its redo.
apply(a, sg) ==
    CASE a.kind = "SetDuration" -> set_duration(a.cur, sg, a.new)
      [] a.kind = "SetNote"     -> IF a.new = None
                                   THEN clear_note(a.cur, sg)
                                   ELSE Cursor_set_note(a.cur, sg, a.new[1])
      [] a.kind = "ClearBeat"   -> clear_beat(a.cur, sg)
      [] a.kind = "ClearBeats"  -> clear_beats(a.cur, sg, Len(a.old))
      [] a.kind = "DeleteBeat"  -> delete_beat(a.cur, sg)
      [] a.kind = "DeleteBeats" -> delete_beats(a.cur, sg, Len(a.old))
      [] a.kind = "PasteNote"   -> Cursor_set_note(a.cur, sg, a.buf)
      [] a.kind = "PasteBeat"   -> insert_beat(a.cur, sg, a.old # None, a.buf)
      [] a.kind = "PasteBeats"  -> insert_beats(a.cur, sg, a.old # None, a.buf)

\* The inverse effect of an Action, from the old state it carries: its undo.
unapply(a, sg) ==
    CASE a.kind = "SetDuration" -> set_duration(a.cur, sg, a.old)
      [] a.kind = "SetNote"     -> IF a.old = None
                                   THEN clear_note(a.cur, sg)
                                   ELSE Cursor_set_note(a.cur, sg, a.old[1])
      [] a.kind = "ClearBeat"   -> set_notes(a.cur, sg, a.old)
      [] a.kind = "ClearBeats"  -> replace_beats(a.cur, sg, a.old)
      [] a.kind = "DeleteBeat"  -> insert_beat(a.cur, sg, FALSE, a.old)
      [] a.kind = "DeleteBeats" -> insert_beats(a.cur, sg, FALSE, a.old)
      [] a.kind = "PasteNote"   -> IF a.old = None
                                   THEN clear_note(a.cur, sg)
                                   ELSE Cursor_set_note(a.cur, sg, a.old[1])
      [] a.kind = "PasteBeat"   -> IF a.old = None
                                   THEN delete_beat(a.cur, sg)
                                   ELSE insert_beat(a.cur, sg, TRUE, a.old[1])
      [] a.kind = "PasteBeats"  ->
            LET r == delete_beats(a.cur, sg, Len(a.buf))
            IN  IF a.old = None \/ r.panic THEN r
                ELSE insert_beat(a.cur, r.song, FALSE, a.old[1])

\* --------------------------------------------------------------- History

\* History::new(size)
History_new(size) == [size |-> size, history |-> <<>>, future |-> 0]

\* VecDeque::pop_back: nothing happens on an empty queue.
del_old(h) ==
    [h EXCEPT !.history =
        IF Len(h.history) = 0 THEN <<>> ELSE Slice(h.history, 0, Len(h.history) - 1)]

\* A del_future that pops the undone entries and leaves future as it was.
del_future_keeps_pointer(h) ==
    [h EXCEPT !.history = Slice(h.history, Min(h.future, Len(h.history)), Len(h.history))]

\* future times pop_front (an empty queue stays empty), then future = 0.
del_future(h) ==
    [h EXCEPT !.history = Slice(h.history, Min(h.future, Len(h.history)), Len(h.history)),
              !.future = 0]

\* A push that forgets to evict the oldest entry of a full queue.
push_no_evict(h, entry) ==
    LET h1 == del_future(h)
    IN  [h1 EXCEPT !.history = <<entry>> \o h1.history]

\* A push that keeps the undone entries.
push_keep_future(h, entry) ==
    LET h2 == IF Len(h.history) = h.size THEN del_old(h) ELSE h
    IN  [h2 EXCEPT !.history = <<entry>> \o h2.history]

\* History::push
push(h, entry) ==
    LET h1 == del_future(h)
        h2 == IF Len(h1.history) = h1.size THEN del_old(h1) ELSE h1
    IN  [h2 EXCEPT !.history = <<entry>> \o h2.history]

\* An undo that moves the pointer even when there is nothing to undo.
undo_always_moves(h) ==
    [h   |-> [h EXCEPT !.future = h.future + 1],
     ret |-> Get(h.history, h.future)]

\* An undo that returns the front entry whatever future is.
undo_returns_front(h) ==
    LET e == Get(h.history, h.future)
    IN  IF e = None
        THEN [h |-> h, ret |-> None]
        ELSE [h |-> [h EXCEPT !.future = h.future + 1], ret |-> Get(h.history, 0)]

\* History::undo: the pair of the History afterwards and the value returned.
undo(h) ==
    LET e == Get(h.history, h.future)
    IN  IF e = None
        THEN [h |-> h, ret |-> None]
        ELSE [h |-> [h EXCEPT !.future = h.future + 1], ret |-> e]

\* A redo that returns the entry at the old pointer.
redo_old_index(h) ==
    IF h.future = 0
    THEN [h |-> h, ret |-> None]
    ELSE [h |-> [h EXCEPT !.future = h.future - 1], ret |-> Get(h.history, h.future)]

\* History::redo: checked_sub(1)? leaves future alone when it is 0.
redo(h) ==
    IF h.future = 0
    THEN [h |-> h, ret |-> None]
    ELSE LET f == h.future - 1
         IN  [h |-> [h EXCEPT !.future = f], ret |-> Get(h.history, f)]

\* ------------------------------------------------- History: state machine

InitHistory(size) ==
    /\ hist = History_new(size)
    /\ hop = "new"
    /\ harg = 0
    /\ hret = None
    /\ hrun = 0
    /\ hnext = 1

\* Song::new(), Cursor::new()
InitDocument ==
    /\ song = Song_new
    /\ cur = Cursor_new
    /\ panicked = FALSE
    /\ op = [name |-> "new", dire |-> 0, w |-> 0, k |-> 0]
    /\ buffer = Buffer_Empty
    /\ act = NoAction
    /\ phase = "idle"
    /\ before = <<>>
    /\ after = <<>>

\* The editor as it starts.
Init == InitHistory(MaxSize) /\ InitDocument

\* The History alone, created with any capacity from 1 to MaxSize.
InitCapacities == (\E size \in 1..MaxSize : InitHistory(size)) /\ InitDocument

HistPush ==
    /\ hnext <= MaxPush
    /\ hist' = push(hist, hnext)
    /\ hop' = "push"
    /\ harg' = hnext
    /\ hret' = None
    /\ hrun' = hrun + 1
    /\ hnext' = hnext + 1
    /\ UNCHANGED <<dvars, evars>>

HistUndo ==
    /\ hist' = undo(hist).h
    /\ hret' = undo(hist).ret
    /\ hop' = "undo"
    /\ hrun' = 0
    /\ UNCHANGED <<harg, hnext>>
    /\ UNCHANGED <<dvars, evars>>

HistRedo ==
    /\ hist' = redo(hist).h
    /\ hret' = redo(hist).ret
    /\ hop' = "redo"
    /\ hrun' = 0
    /\ UNCHANGED <<harg, hnext>>
    /\ UNCHANGED <<dvars, evars>>

NextHistory ==
    \/ HistPush
    \/ HistUndo
    \/ HistRedo

SpecHistory == InitCapacities /\ [][NextHistory]_vars

\* ---------------------------------- History, calls followed: state machine

\* The calls since the last break, kept in op: pushed are the entries of
\* the pushes made in a row, undone what the undos made right after them
\* returned, redone what the redos made right after those returned, start
\* the History as the last push left it.  A call out of that order (an undo
\* after a redo, an undo of more than was pushed, a redo with no undo left to
\* take back) empties the record.
NoRun == [name |-> "run", pushed |-> <<>>, undone |-> <<>>, redone |-> <<>>,
          start |-> History_new(0)]

InitOrdering ==
    /\ \E size \in 1..MaxSize : InitHistory(size)
    /\ song = Song_new
    /\ cur = Cursor_new
    /\ panicked = FALSE
    /\ op = NoRun
    /\ buffer = Buffer_Empty
    /\ act = NoAction
    /\ phase = "idle"
    /\ before = <<>>
    /\ after = <<>>

\* history.push(entry)
OrdPush ==
    /\ hnext <= MaxPush
    /\ hist' = push(hist, hnext)
    /\ hop' = "push"
    /\ harg' = hnext
    /\ hret' = None
    /\ hrun' = hrun + 1
    /\ hnext' = hnext + 1
    /\ op' = [NoRun EXCEPT
                !.pushed = IF op.undone = <<>> THEN Append(op.pushed, hnext) ELSE <<hnext>>,
                !.start = push(hist, hnext)]
    /\ UNCHANGED <<song, cur, panicked, buffer, evars>>

\* history.undo()
OrdUndo ==
    /\ hist' = undo(hist).h
    /\ hret' = undo(hist).ret
    /\ hop' = "undo"
    /\ hrun' = 0
    /\ op' = IF Len(op.undone) < Len(op.pushed) /\ op.redone = <<>>
             THEN [op EXCEPT !.undone = Append(@, undo(hist).ret)]
             ELSE NoRun
    /\ UNCHANGED <<harg, hnext, song, cur, panicked, buffer, evars>>

\* history.redo()
OrdRedo ==
    /\ hist' = redo(hist).h
    /\ hret' = redo(hist).ret
    /\ hop' = "redo"
    /\ hrun' = 0
    /\ op' = IF Len(op.redone) < Len(op.undone)
             THEN [op EXCEPT !.redone = Append(@, redo(hist).ret)]
             ELSE NoRun
    /\ UNCHANGED <<harg, hnext, song, cur, panicked, buffer, evars>>

NextOrdering ==
    \/ OrdPush
    \/ OrdUndo
    \/ OrdRedo

SpecOrdering == InitOrdering /\ [][NextOrdering]_vars

\* ------------------------------------------------ Cursor: state machine

\* The deltas the seeks are called with.
Dires == {-1, 1, 2}

\* The view widths the seeks are called with.
Widths == 1..MaxWidth

\* The durations a beat is given.
Durations == {Duration_new(1, 1), Duration_new(1, 2)}

\* The notes a string is given.
Notes == {Fret(5)}

\* A call of a Cursor method on the live Song and Cursor: r is what it leaves
\* behind.  Nothing runs once a call has panicked.
Call(name, dire, w, r) ==
    /\ ~panicked
    /\ song' = r.song
    /\ cur' = r.cur
    /\ panicked' = r.panic
    /\ op' = [name |-> name, dire |-> dire, w |-> w, k |-> Len(beats(cur, song))]
    /\ UNCHANGED <<buffer, evars, hvars>>

SeekBeat ==
    \E dire \in Dires, w \in Widths :
        /\ Max(cur.beat + dire, 0) < MaxBeats
        /\ Call("seek_beat", dire, w, seek_beat(cur, song, dire, w))

SeekStart == Call("seek_start", 0, 0, seek_start(cur, song))

SeekEnd == \E w \in Widths : Call("seek_end", 0, w, seek_end(cur, song, w))

SeekNextMeasure ==
    \E w \in Widths : Call("seek_next_measure", 0, w, seek_next_measure(cur, song, w))

SeekPrevMeasure ==
    \E w \in Widths : Call("seek_prev_measure", 0, w, seek_prev_measure(cur, song, w))

SeekScroll ==
    \E dire \in Dires, w \in Widths, checks \in BOOLEAN :
        /\ Len(beats(cur, song)) = 0 => Max(cur.scroll + dire, 0) < MaxBeats
        /\ Call("seek_scroll", dire, w, seek_scroll(cur, song, dire, w, checks))

SetDuration ==
    \E dur \in Durations : Call("set_duration", 0, 0, set_duration(cur, song, dur))

SetNote ==
    \E note \in Notes : Call("set_note", 0, 0, Cursor_set_note(cur, song, note))

ClearNote == Call("clear_note", 0, 0, clear_note(cur, song))

DeleteBeat == Call("delete_beat", 0, 0, delete_beat(cur, song))

\* A call of a ranged edit: as Call, and the count it was asked for is kept.
CallRange(name, count, r) ==
    /\ ~panicked
    /\ song' = r.song
    /\ cur' = r.cur
    /\ panicked' = r.panic
    /\ op' = [name |-> name, dire |-> 0, w |-> 0, k |-> Len(beats(cur, song)),
              count |-> count]
    /\ UNCHANGED <<buffer, evars, hvars>>

ClearBeats ==
    \E count \in 0..MaxCount : CallRange("clear_beats", count, clear_beats(cur, song, count))

DeleteBeats ==
    \E count \in 0..MaxCount : CallRange("delete_beats", count, delete_beats(cur, song, count))

\* The Beat buffers: a copy_beat taken with the cursor on some beat.
BeatBuffers == {beats(cur, song)[j] : j \in 1..Len(beats(cur, song))}

\* The Beats buffers: a copy_beats(count) taken with the cursor on some beat.
BeatsBuffers ==
    {clone_beats_slice([cur EXCEPT !.beat = jc[1]], song, jc[2])[1] :
        jc \in {x \in (0..Len(beats(cur, song))) \X (0..MaxCount) :
                    x[1] + x[2] <= Len(beats(cur, song))}}

\* copy_beat with the cursor on some beat of the track, then insert_beat
\* at the cursor.
InsertBeat ==
    \E in_place \in BOOLEAN, buf \in BeatBuffers :
        /\ Len(beats(cur, song)) + (IF in_place THEN 0 ELSE 1) <= MaxBeats
        /\ Call("insert_beat", 0, 0, insert_beat(cur, song, in_place, buf))

\* copy_beats(count) with the cursor on some beat, then insert_beats at the
\* cursor.
InsertBeats ==
    \E in_place \in BOOLEAN, buf \in BeatsBuffers :
        /\ Len(beats(cur, song)) + Len(buf) <= MaxBeats
        /\ Call("insert_beats", 0, 0, insert_beats(cur, song, in_place, buf))

\* replace_beats at the cursor with beats copied from the track.
ReplaceBeats ==
    \E buf \in BeatsBuffers :
        CallRange("replace_beats", Len(buf), replace_beats(cur, song, buf))

Next ==
    \/ SeekBeat
    \/ SeekStart
    \/ SeekEnd
    \/ SeekNextMeasure
    \/ SeekPrevMeasure
    \/ SeekScroll
    \/ SetDuration
    \/ SetNote
    \/ ClearNote
    \/ ClearBeats
    \/ DeleteBeat
    \/ DeleteBeats
    \/ InsertBeat
    \/ InsertBeats
    \/ ReplaceBeats

Spec == Init /\ [][Next]_vars

\* -------------------------------------------- edit, undo, redo: machine

\* The strings the cursor is moved to while edits are undone and redone.
EditStrings == {0, 1}

\* ... and the track holds at most one note for each of them.
EditMaxNotes == Cardinality(EditStrings)

\* The number of notes in the beats bs.
RECURSIVE NoteCount(_)
NoteCount(bs) == IF bs = <<>> THEN 0 ELSE Len(bs[1].notes) + NoteCount(Tail(bs))

\* The editor waits for a command: no edit is being followed.
Idle == ~panicked /\ phase = "idle"

\* An edit: the Action a, built from the old state the Cursor reads, is
\* applied to the Song.
Edit(a) ==
    LET r == apply(a, song)
    IN  /\ Idle
        /\ Len(beats(cur, r.song)) <= EditMaxBeats
        /\ NoteCount(beats(cur, r.song)) <= EditMaxNotes
        /\ song' = r.song
        /\ panicked' = r.panic
        /\ act' = a
        /\ phase' = "applied"
        /\ before' = song
        /\ after' = r.song
        /\ UNCHANGED <<cur, op, buffer, hvars>>

\* Reading the old state at a cursor that is on no beat panics.
EditPanics ==
    /\ Idle
    /\ NoBeat(cur, song)
    /\ panicked' = TRUE
    /\ UNCHANGED <<song, cur, op, buffer, evars, hvars>>

\* A move of the cursor between edits.
EditSeek(r) ==
    /\ Idle
    /\ song' = r.song
    /\ cur' = r.cur
    /\ panicked' = r.panic
    /\ UNCHANGED <<op, buffer, evars, hvars>>

EditSeekBeat ==
    \E dire \in {-1, 1} :
        /\ Max(cur.beat + dire, 0) < EditMaxBeats
        /\ EditSeek(seek_beat(cur, song, dire, 1))

EditSeekString ==
    \E dire \in {-1, 1} :
        /\ seek_string(cur, song, dire, TRUE).cur.string \in EditStrings
        /\ \E checks \in BOOLEAN : EditSeek(seek_string(cur, song, dire, checks))

EditSetDuration ==
    /\ ~NoBeat(cur, song)
    /\ \E dur \in Durations :
        Edit(Action_set_duration(cur, At(beats(cur, song), cur.beat).dur, dur))

EditSetNote ==
    /\ ~NoBeat(cur, song)
    /\ \E new \in {None} \cup {Some(n) : n \in Notes} :
        Edit(Action_set_note(cur, Beat_copy_note(At(beats(cur, song), cur.beat), cur.string), new))

EditClearBeat ==
    /\ ~NoBeat(cur, song)
    /\ Edit(Action_clear_beat(cur, At(beats(cur, song), cur.beat).notes))

EditClearBeats ==
    \E count \in 0..MaxCount :
        /\ clone_beats_slice(cur, song, count) # None
        /\ Edit(Action_clear_beats(cur, clone_beats_slice(cur, song, count)[1]))

EditDeleteBeat ==
    /\ ~NoBeat(cur, song)
    /\ Edit(Action_delete_beat(cur, At(beats(cur, song), cur.beat)))

EditDeleteBeats ==
    \E count \in 0..MaxCount :
        /\ clone_beats_slice(cur, song, count) # None
        /\ Edit(Action_delete_beats(cur, clone_beats_slice(cur, song, count)[1]))

EditPasteNote ==
    /\ ~NoBeat(cur, song)
    /\ \E buf \in Notes :
        Edit(Action_paste_note(cur, Beat_copy_note(At(beats(cur, song), cur.beat), cur.string), buf))

EditPasteBeat ==
    \E buf \in BeatBuffers :
        \/ /\ ~NoBeat(cur, song)
           /\ Edit(Action_paste_beat(cur, Some(At(beats(cur, song), cur.beat)), buf))
        \/ Edit(Action_paste_beat(cur, None, buf))

EditPasteBeats ==
    \E buf \in BeatsBuffers :
        \/ /\ ~NoBeat(cur, song)
           /\ Edit(Action_paste_beats(cur, Some(At(beats(cur, song), cur.beat)), buf))
        \/ Edit(Action_paste_beats(cur, None, buf))

\* Undo of the edit just made.
EditUndo ==
    /\ ~panicked
    /\ phase = "applied"
    /\ song' = unapply(act, song).song
    /\ panicked' = unapply(act, song).panic
    /\ phase' = "undone"
    /\ UNCHANGED <<cur, op, buffer, act, before, after, hvars>>

\* Redo of the edit just undone.
EditRedo ==
    /\ ~panicked
    /\ phase = "undone"
    /\ song' = apply(act, song).song
    /\ panicked' = apply(act, song).panic
    /\ phase' = "redone"
    /\ UNCHANGED <<cur, op, buffer, act, before, after, hvars>>

\* The edit stays as it is and the editor waits for the next command.
EditKept ==
    /\ ~panicked
    /\ phase \in {"applied", "redone"}
    /\ act' = NoAction
    /\ phase' = "idle"
    /\ before' = <<>>
    /\ after' = <<>>
    /\ UNCHANGED <<song, cur, panicked, op, buffer, hvars>>

NextEdit ==
    \/ EditSeekBeat
    \/ EditSeekString
    \/ EditPanics
    \/ EditSetDuration
    \/ EditSetNote
    \/ EditClearBeat
    \/ EditClearBeats
    \/ EditDeleteBeat
    \/ EditDeleteBeats
    \/ EditPasteNote
    \/ EditPasteBeat
    \/ EditPasteBeats
    \/ EditUndo
    \/ EditRedo
    \/ EditKept

SpecEdit == Init /\ [][NextEdit]_vars



\* -------------------------------------------- copy and paste: state machine

\* The deltas seek_beat and seek_string are called with.
PasteDires == {-3, 3}

PasteStringDires == {-2, 2}

\* The strings the cursor is moved to ...
PasteStrings == {0, 2}

\* ... and the track holds at most one note for each of them.
PasteMaxNotes == Cardinality(PasteStrings)

\* The counts copy_beats is called with.
PasteCounts == {0, 2}

\* A call made while notes and beats are copied and pasted: r is what it
\* leaves of the Song and the Cursor, buf of the Buffer; in_place is the
\* flag of a paste and had tells whether set_note found the string taken.
PCall(name, r, buf, in_place, had) ==
    /\ ~panicked
    /\ Len(beats(r.cur, r.song)) <= PasteMaxBeats
    /\ NoteCount(beats(r.cur, r.song)) <= PasteMaxNotes
    /\ song' = r.song
    /\ cur' = r.cur
    /\ panicked' = r.panic
    /\ buffer' = buf
    /\ op' = [name |-> name, in_place |-> in_place, had |-> had]
    /\ UNCHANGED <<evars, hvars>>

\* What a read of the beat at the cursor leaves: it panics off the track.
Read == IF NoBeat(cur, song) THEN Panicked(song, cur) ELSE Returned(song, cur)

PSeekBeat ==
    \E dire \in PasteDires :
        PCall("seek_beat", seek_beat(cur, song, dire, PasteMaxBeats), buffer, FALSE, FALSE)

PSeekString ==
    \E dire \in PasteStringDires :
        /\ clamp(cur.string + dire, 0, 5) \in PasteStrings
        /\ \E checks \in BOOLEAN :
            PCall("seek_string", seek_string(cur, song, dire, checks), buffer, FALSE, FALSE)

PSetNote ==
    \E note \in Notes :
        PCall("set_note", Cursor_set_note(cur, song, note), buffer, FALSE,
              ~NoBeat(cur, song) /\ Beat_copy_note(At(beats(cur, song), cur.beat), cur.string) # None)

\* clone_chord with the cursor on some beat j, then set_notes at the cursor.
PSetNotes ==
    \E j \in 0..(Len(beats(cur, song)) - 1) :
        PCall("set_notes", set_notes(cur, song, clone_chord([cur EXCEPT !.beat = j], song)),
              buffer, FALSE, FALSE)

PClearNote == PCall("clear_note", clear_note(cur, song), buffer, FALSE, FALSE)

PClearBeat == PCall("clear_beat", clear_beat(cur, song), buffer, FALSE, FALSE)

PCopyNote ==
    PCall("copy_note", Read, IF NoBeat(cur, song) THEN buffer ELSE copy_note(cur, song),
          FALSE, FALSE)

PCopyBeat ==
    PCall("copy_beat", Read, IF NoBeat(cur, song) THEN buffer ELSE copy_beat(cur, song),
          FALSE, FALSE)

\* copy_beats(count); the count asked for is kept with the call.
PCopyBeats ==
    \E count \in PasteCounts :
        /\ ~panicked
        /\ buffer' = copy_beats(cur, song, count)
        /\ op' = [name |-> "copy_beats", in_place |-> FALSE, had |-> FALSE, count |-> count]
        /\ UNCHANGED <<song, cur, panicked, evars, hvars>>

PPaste ==
    \E in_place \in BOOLEAN :
        PCall("paste", paste_once(cur, song, buffer, in_place), buffer, in_place, FALSE)

\* replace_beats at the cursor with the beats of the Buffer.
PReplaceBeats ==
    /\ buffer.kind = "Beats"
    /\ PCall("replace_beats", replace_beats(cur, song, buffer.beats), buffer, FALSE, FALSE)

NextPaste ==
    \/ PSeekBeat
    \/ PSeekString
    \/ PSetNote
    \/ PSetNotes
    \/ PClearNote
    \/ PClearBeat
    \/ PCopyNote
    \/ PCopyBeat
    \/ PCopyBeats
    \/ PPaste
    \/ PReplaceBeats

SpecPaste == Init /\ [][NextPaste]_vars

\* ------------------------------------------------ Duration: state machine

\* The Durations the functions are called on.
DurationValues ==
    {Duration_new(0, 1), Duration_new(1, 1), Duration_new(1, 2), Duration_new(1, 3),
     Duration_new(3, 4), Duration_new(1, 256), Duration_new(255, 256)}

\* The u16 arguments (num, den, count, rhs, tuplet) they are called with.
U16Values == {0, 1, 2, 3, 6, 256}

\* The arguments of one call of a constructor or of an arithmetic operation,
\* and the build (overflow checks on or off) it runs in.
CallArgs ==
    [name : {"args"}, a : DurationValues, b : DurationValues,
     n : U16Values, m : U16Values, checks : BOOLEAN]

\* The texts handed to from_str, by the numbers their digits spell.
TextArgs ==
    [name : {"text"}, count : {None, Some(0), Some(3), Some(U16)},
     base : {0, 1, 3, 4, 8, 32768, U16}, is_dotted : BOOLEAN,
     tup : {None, Some(0), Some(2), Some(3), Some(8)}, checks : BOOLEAN]

\* The Durations that are compared: those above and some with a large
\* numerator or denominator.
ComparedValues ==
    DurationValues \cup
        {Duration_new(2, 3), Duration_new(256, 1), Duration_new(256, 257),
         Duration_new(1, 32768)}

\* The two sides of a comparison and the build it runs in.
PairArgs == [name : {"pair"}, a : ComparedValues, b : ComparedValues, checks : BOOLEAN]

InitDuration ==
    /\ InitHistory(MaxSize)
    /\ song = Song_new
    /\ cur = Cursor_new
    /\ panicked = FALSE
    /\ op \in CallArgs \cup TextArgs \cup PairArgs
    /\ buffer = Buffer_Empty
    /\ act = NoAction
    /\ phase = "idle"
    /\ before = <<>>
    /\ after = <<>>

\* The call name on the arguments op has given back r.
Gave(name, r) ==
    /\ op' = [name |-> name, args |-> op, ret |-> r]
    /\ UNCHANGED <<song, cur, panicked, buffer, evars, hvars>>

DNew ==
    /\ op.name = "args"
    /\ Gave("new", Checked_new(op.n, op.m))

DNewChecked ==
    /\ op.name = "args"
    /\ Gave("new_checked", new_checked(op.n, op.m))

DHelper ==
    /\ op.name = "args"
    /\ \E d \in {whole(op.n)} \cup {pow2_note(op.n, den) : den \in {2, 4, 8, 16, 32, 64}} :
        Gave("helper", Ok(d))

DDotted ==
    /\ op.name = "args"
    /\ Gave("dotted", dotted(op.a, op.checks))

DTuplet ==
    /\ op.name = "args"
    /\ Gave("tuplet", tuplet(op.a, op.n, op.checks))

DAdd ==
    /\ op.name = "args"
    /\ Gave("add", add(op.a, op.b, op.checks))

DSub ==
    /\ op.name = "args"
    /\ Gave("sub", sub(op.a, op.b, op.checks))

\* (a + b) - b
DAddSub ==
    /\ op.name = "args"
    /\ LET Less(d) == sub(d, op.b, op.checks)
       IN  Gave("add_sub", Then(add(op.a, op.b, op.checks), Less))

DMul ==
    /\ op.name = "args"
    /\ Gave("mul", mul(op.a, op.n, op.checks))

DDiv ==
    /\ op.name = "args"
    /\ Gave("div", div(op.a, op.n, op.checks))

DAddBasic ==
    /\ op.name = "args"
    /\ Gave("add_basic", add_basic(op.a, op.b, op.checks))

DParse ==
    /\ op.name = "text"
    /\ Gave("from_str", from_str(op.count, op.base, op.is_dotted, op.tup, op.checks))

\* a.cmp(&b), which a < b, a > b, a <= b and a >= b go through.
DCmp ==
    /\ op.name = "pair"
    /\ Gave("cmp", cmp(op.a, op.b, op.checks))

\* a == b
DEq ==
    /\ op.name = "pair"
    /\ Gave("eq", eq(op.a, op.b, op.checks))

NextDuration ==
    \/ DNew
    \/ DNewChecked
    \/ DHelper
    \/ DDotted
    \/ DTuplet
    \/ DAdd
    \/ DSub
    \/ DAddSub
    \/ DMul
    \/ DDiv
    \/ DAddBasic
    \/ DParse
    \/ DCmp
    \/ DEq

SpecDuration == InitDuration /\ [][NextDuration]_vars

\* ---------------------------------------- measure index: state machine

\* The durations the beats of a loaded track have.
MeasureDurations ==
    {Duration_new(1, 256), Duration_new(1, 4), Duration_new(1, 2), Duration_new(1, 1)}

\* The tracks a Song is loaded with: the beats are read, measure_i is
\* skipped and starts empty.
LoadedTracks ==
    {[string_count |-> 6, beats |-> [i \in 1..n |-> Beat_new(ds[i])], measure_i |-> <<>>] :
        n \in 1..MaxTrackBeats, ds \in [1..MaxTrackBeats -> MeasureDurations]}

\* A Song of one loaded track.
InitMeasures ==
    /\ InitHistory(MaxSize)
    /\ song \in {<<t>> : t \in LoadedTracks}
    /\ cur = Cursor_new
    /\ panicked = FALSE
    /\ op = [name |-> "load", dire |-> 0, w |-> 0, k |-> 0]
    /\ buffer = Buffer_Empty
    /\ act = NoAction
    /\ phase = "idle"
    /\ before = <<>>
    /\ after = <<>>

\* track.update_measures() on the loaded track, in a build with overflow
\* checks or without.  A panic ends the process with the index half built.
UpdateMeasures ==
    /\ op.name = "load"
    /\ \E checks \in BOOLEAN :
        IF measures_panic(song[1].beats, 1, Duration_new(1, 1), checks)
        THEN /\ panicked' = TRUE
             /\ song' = song
        ELSE /\ panicked' = FALSE
             /\ song' = [song EXCEPT ![1] = update_measures(@)]
    /\ op' = [op EXCEPT !.name = "update_measures", !.k = Len(song[1].beats)]
    /\ UNCHANGED <<cur, buffer, evars, hvars>>

NextMeasures == UpdateMeasures

SpecMeasures == InitMeasures /\ [][NextMeasures]_vars

\* --------------------------------------------- several tracks: state machine

\* The indices the command "t <index>" is typed with; a Song is given tracks
\* while the last of them stays out of range.
TrackIndices == {0, 1, 2}

\* The beats of the tracks from track t (1-based) on, counted.
RECURSIVE SongBeats(_, _)
SongBeats(sg, t) == IF t > Len(sg) THEN 0 ELSE Len(sg[t].beats) + SongBeats(sg, t + 1)

\* A call of a Cursor edit on a Song of one track or more: r is what it
\* leaves behind, count the count clear_beats was asked for (0 otherwise).
\* Each track is kept to EditMaxBeats beats.
TCall(name, count, r) ==
    /\ ~panicked
    /\ SongBeats(r.song, 1) <= MaxSongBeats
    /\ \A t \in 1..Len(r.song) : Len(r.song[t].beats) <= EditMaxBeats
    /\ song' = r.song
    /\ cur' = r.cur
    /\ panicked' = r.panic
    /\ op' = [name |-> name, count |-> count]
    /\ UNCHANGED <<buffer, evars, hvars>>

\* The command "t add": a new track at the end of the Song.
TAddTrack ==
    /\ Len(song) + 1 \in TrackIndices
    /\ TCall("t add", 0, Returned(Append(song, Track_new), cur))

\* The command "t <index>": the cursor is given the index as it is typed,
\* beat and string kept; the draw that follows reads song.tracks[track] and
\* panics when there is no such track.
TSwitchTrack ==
    \E index \in TrackIndices :
        TCall("t", 0, [song |-> song, cur |-> [cur EXCEPT !.track = index],
                       panic |-> index >= Len(song)])

TSeekBeat ==
    \E dire \in {-1, 1} : TCall("seek_beat", 0, seek_beat(cur, song, dire, PasteMaxBeats))

TSetNote ==
    \E note \in Notes : TCall("set_note", 0, Cursor_set_note(cur, song, note))

\* clone_chord with the cursor on some beat j, then set_notes at the cursor.
TSetNotes ==
    /\ ~panicked
    /\ \E j \in 0..(Len(beats(cur, song)) - 1) :
        TCall("set_notes", 0, set_notes(cur, song, clone_chord([cur EXCEPT !.beat = j], song)))

TClearNote == TCall("clear_note", 0, clear_note(cur, song))

TClearBeat == TCall("clear_beat", 0, clear_beat(cur, song))

TClearBeats ==
    \E count \in 0..MaxCount : TCall("clear_beats", count, clear_beats(cur, song, count))

TSetDuration ==
    \E dur \in Durations : TCall("set_duration", 0, set_duration(cur, song, dur))

TDeleteBeat == TCall("delete_beat", 0, delete_beat(cur, song))

TDeleteBeats ==
    \E count \in 0..MaxCount : TCall("delete_beats", 0, delete_beats(cur, song, count))

TInsertBeat ==
    /\ ~panicked
    /\ \E in_place \in BOOLEAN, buf \in BeatBuffers :
        TCall("insert_beat", 0, insert_beat(cur, song, in_place, buf))

TInsertBeats ==
    /\ ~panicked
    /\ \E in_place \in BOOLEAN, buf \in BeatsBuffers :
        TCall("insert_beats", 0, insert_beats(cur, song, in_place, buf))

TReplaceBeats ==
    /\ ~panicked
    /\ \E buf \in BeatsBuffers :
        TCall("replace_beats", 0, replace_beats(cur, song, buf))

NextTracks ==
    \/ TAddTrack
    \/ TSwitchTrack
    \/ TSeekBeat
    \/ TSetNote
    \/ TSetNotes
    \/ TClearNote
    \/ TClearBeat
    \/ TClearBeats
    \/ TSetDuration
    \/ TDeleteBeat
    \/ TDeleteBeats
    \/ TInsertBeat
    \/ TInsertBeats
    \/ TReplaceBeats

SpecTracks == Init /\ [][NextTracks]_vars

\* ------------------------------------------- string cursor: state machine

\* The string counts of the tracks the cursor is moved on.
StringCounts == {1, 2, 3, 4, 6}

\* The deltas seek_string is called with (the key handlers pass -1 and 1).
StringDires == {-7, -2, -1, 0, 1, 2, 7}

\* A Song of one track with one of the string counts.
InitStrings ==
    /\ InitHistory(MaxSize)
    /\ song \in {<<[Track_new EXCEPT !.string_count = n]>> : n \in StringCounts}
    /\ cur = Cursor_new
    /\ panicked = FALSE
    /\ op = [name |-> "new", dire |-> 0, checks |-> FALSE]
    /\ buffer = Buffer_Empty
    /\ act = NoAction
    /\ phase = "idle"
    /\ before = <<>>
    /\ after = <<>>

\* seek_string(dire) in a build with overflow checks or without.
SeekString ==
    \E dire \in StringDires, checks \in BOOLEAN :
        LET r == seek_string(cur, song, dire, checks)
        IN  /\ ~panicked
            /\ song' = r.song
            /\ cur' = r.cur
            /\ panicked' = r.panic
            /\ op' = [name |-> "seek_string", dire |-> dire, checks |-> checks]
            /\ UNCHANGED <<buffer, evars, hvars>>

NextStrings == SeekString

SpecStrings == InitStrings /\ [][NextStrings]_vars

\* ---------------------------------------------- notes of a Beat: machine

\* The strings and the notes set_note and del_note are called with.
BeatStrings == {0, 1, 2}

BeatNotes == {Fret(5), NoteX}

\* The Beat the calls are made on: the first beat of the first track.
TheBeat(sg) == sg[1].beats[1]

\* Beat::new in a new Song.
InitBeat ==
    /\ InitHistory(MaxSize)
    /\ song = Song_new
    /\ cur = Cursor_new
    /\ panicked = FALSE
    /\ op = [name |-> "new", string |-> 0, note |-> NoteX, had |-> FALSE]
    /\ buffer = Buffer_Empty
    /\ act = NoAction
    /\ phase = "idle"
    /\ before = <<>>
    /\ after = <<>>

\* A call on the Beat that leaves it as b; had tells whether the string held
\* a note before.
OnBeat(name, string, note, b) ==
    /\ song' = [song EXCEPT ![1].beats[1] = b]
    /\ op' = [name |-> name, string |-> string, note |-> note,
              had |-> Beat_copy_note(TheBeat(song), string) # None]
    /\ UNCHANGED <<cur, panicked, buffer, evars, hvars>>

BeatSetNote ==
    \E string \in BeatStrings, note \in BeatNotes :
        OnBeat("set_note", string, note, Beat_set_note(TheBeat(song), string, note))

BeatDelNote ==
    \E string \in BeatStrings :
        OnBeat("del_note", string, NoteX, Beat_del_note(TheBeat(song), string))

NextBeat ==
    \/ BeatSetNote
    \/ BeatDelNote

SpecBeat == InitBeat /\ [][NextBeat]_vars

\* ------------------------------------------------------- History: claims

C4_PushDropsFuture ==
    [][hop' = "push" =>
        LET rest == Slice(hist.history, hist.future, Len(hist.history))
            kept == IF Len(rest) = hist.size
                    THEN Slice(rest, 0, Len(rest) - 1)
                    ELSE rest
        IN  /\ hist'.future = 0
            /\ hist'.size = hist.size
            /\ hist'.history = <<harg'>> \o kept
            /\ redo(hist').ret = None
            /\ undo(hist').ret = Some(harg')]_vars

\* A push was made while the previously pushed entry was undone: that entry
\* is gone and an older one is still there.
C4_Witness ==
    /\ hop = "push"
    /\ harg > 1
    /\ Len(hist.history) >= 2
    /\ \A i \in 1..Len(hist.history) : hist.history[i] # harg - 1

\* C5: undo with future = queue length returns nothing and changes nothing;
\* otherwise it returns the entry at index future, adds one to future and
\* leaves the queue alone.
C5_Undo ==
    [][hop' = "undo" =>
        IF hist.future = Len(hist.history)
        THEN hret' = None /\ hist' = hist
        ELSE /\ hret' = Some(At(hist.history, hist.future))
             /\ hist'.future = hist.future + 1
             /\ hist'.history = hist.history
             /\ hist'.size = hist.size]_vars

\* An undo failed on a History that holds entries (all of them undone).
C5_Witness == hop = "undo" /\ hret = None /\ Len(hist.history) > 0

\* C6: redo with future = 0 returns nothing and changes nothing; otherwise
\* it takes one from future, returns the entry at the new index and leaves
\* the queue alone.
C6_Redo ==
    [][hop' = "redo" =>
        IF hist.future = 0
        THEN hret' = None /\ hist' = hist
        ELSE /\ hist'.future = hist.future - 1
             /\ hret' = Some(At(hist.history, hist.future - 1))
             /\ hist'.history = hist.history
             /\ hist'.size = hist.size]_vars

\* A redo failed on a History that holds entries (none of them undone).
C6_Witness == hop = "redo" /\ hret = None /\ Len(hist.history) > 0

\* -------------------------------------------------------- Cursor: claims

\* The navigation calls C8 names.
NavOps ==
    {"seek_beat", "seek_scroll", "seek_start", "seek_end",
     "seek_next_measure", "seek_prev_measure"}

\* The navigation calls that reconcile the view with a width.
WindowOps ==
    {"seek_beat", "seek_scroll", "seek_end", "seek_next_measure", "seek_prev_measure"}

\* C7: every track holds at least one beat, whatever Cursor operations ran.
C7_TrackNeverEmpty == \A t \in 1..Len(song) : Len(song[t].beats) >= 1

\* C8: when a navigation call has returned, cursor.beat and cursor.scroll
\* are indices of the addressed track (stated for a track that holds a beat:
\* an empty one has no index at all).
C8_CursorValid ==
    (op.name \in NavOps /\ ~panicked /\ Len(beats(cur, song)) >= 1) =>
        /\ cur.beat < Len(beats(cur, song))
        /\ cur.scroll < Len(beats(cur, song))

\* C9: when a navigation call that reconciles the view with width w has
\* returned, scroll <= beat < scroll + w.
C9_ViewWindow ==
    (op.name \in WindowOps /\ ~panicked) =>
        /\ cur.scroll <= cur.beat
        /\ cur.beat < cur.scroll + op.w

\* A seek_beat has slid the window to the right: the cursor is on its last
\* column, not on the first.
C9_Witness ==
    /\ op.name = "seek_beat"
    /\ ~panicked
    /\ op.w >= 2
    /\ cur.scroll > 0
    /\ cur.beat = cur.scroll + op.w - 1

\* C10: a seek_beat to index N >= k on a track of k beats appends N - k + 1
\* beats, each with the duration of the former last beat and no notes,
\* leaves the first k beats as they were and sets cursor.beat to N.
C10_AutoGrowth ==
    [][(op'.name = "seek_beat" /\ ~panicked') =>
        LET k == Len(beats(cur, song))
            N == Max(cur.beat + op'.dire, 0)
        IN  N >= k =>
            /\ Len(beats(cur', song')) = k + (N - k + 1)
            /\ \A i \in (k + 1)..(N + 1) :
                   beats(cur', song')[i] = [dur |-> beats(cur, song)[k].dur, notes |-> <<>>]
            /\ SubSeq(beats(cur', song'), 1, k) = beats(cur, song)
            /\ cur'.beat = N]_vars

\* A seek_beat has appended two beats to a track whose last beat had a
\* note and a duration other than the initial one.
C10_Witness ==
    /\ op.name = "seek_beat"
    /\ ~panicked
    /\ op.k >= 1
    /\ Len(beats(cur, song)) = op.k + 2
    /\ beats(cur, song)[op.k].notes # <<>>
    /\ beats(cur, song)[op.k].dur = Duration_new(1, 2)

\* ------------------------------------------------ edit, undo, redo: claims

\* What of a Song is serialized: per track the string count and the beats
\* with their durations and (string, note) lists; the measure index is
\* derived and skipped.
Serialized(sg) ==
    [t \in 1..Len(sg) |-> [string_count |-> sg[t].string_count, beats |-> sg[t].beats]]

\* The pairs of a beat, whatever their order.
NoteSet(beat) == {beat.notes[i] : i \in 1..Len(beat.notes)}

\* Two Songs with the same tracks, the same beats in the same order, each
\* with the same duration and the same (string, note) pairs, listed in any
\* order.
SameUpToNoteOrder(a, b) ==
    /\ Len(a) = Len(b)
    /\ \A t \in 1..Len(a) :
        /\ a[t].string_count = b[t].string_count
        /\ Len(a[t].beats) = Len(b[t].beats)
        /\ \A i \in 1..Len(a[t].beats) :
            /\ a[t].beats[i].dur = b[t].beats[i].dur
            /\ Len(a[t].beats[i].notes) = Len(b[t].beats[i].notes)
            /\ NoteSet(a[t].beats[i]) = NoteSet(b[t].beats[i])

\* C1: an edit applied, undone and applied again leaves the Song as it was
\* right after the first application.
C1_UndoRedoInverse ==
    phase = "redone" => (~panicked /\ Serialized(song) = Serialized(after))

\* An in-place paste of copied beats has been applied, undone and redone,
\* and it had changed the Song.
C1_Witness ==
    /\ phase = "redone"
    /\ act.kind = "PasteBeats"
    /\ act.old # None
    /\ Len(act.buf) >= 1
    /\ Serialized(before) # Serialized(after)

\* C2 as claimed: an edit applied and then undone leaves the Song as it was
\* right before the edit, the (string, note) list of every beat included.
C2_ExactUndo ==
    phase = "undone" => (~panicked /\ Serialized(song) = Serialized(before))

\* C2 as amended: an edit applied and then undone leaves the beat sequence,
\* every duration and the (string, note) pairs of every beat as they were
\* right before the edit; the order of the pairs within a beat is as it was
\* too, unless the edit cleared a note.
C2_UndoUpToNoteOrder ==
    phase = "undone" =>
        /\ ~panicked
        /\ SameUpToNoteOrder(song, before)
        /\ ~(act.kind = "SetNote" /\ act.new = None /\ act.old # None) =>
                Serialized(song) = Serialized(before)

\* A note has been cleared and the clear undone, and the pairs of the beat
\* are back in another order.
C2_Witness ==
    /\ phase = "undone"
    /\ act.kind = "SetNote"
    /\ act.new = None
    /\ act.old # None
    /\ Serialized(song) # Serialized(before)

\* ------------------------------------------------- measure index: claims

RECURSIVE Gcd(_, _)
Gcd(a, b) == IF b = 0 THEN a ELSE Gcd(b, a % b)

\* The least common multiple of the denominators of the beats' durations:
\* every duration and every sum of them is a whole number of 1/DenLcm notes.
RECURSIVE DenLcm(_)
DenLcm(bs) ==
    IF bs = <<>> THEN 1
    ELSE LET l == DenLcm(Tail(bs)) IN (bs[1].dur[2] * l) \div Gcd(bs[1].dur[2], l)

\* The duration of beat i (1-based) in 1/D notes.
DurUnits(bs, i, D) == bs[i].dur[1] * (D \div bs[i].dur[2])

\* The durations of the beats before beat i (1-based), summed, in 1/D notes.
RECURSIVE Preceding(_, _, _)
Preceding(bs, i, D) == IF i <= 1 THEN 0 ELSE Preceding(bs, i - 1, D) + DurUnits(bs, i - 1, D)

\* The rule as stated: the running total t (in 1/D notes) starts at one
\* measure; a beat at which it has reached or passed D is a measure start
\* and D is taken off; the beat's duration is added.
RECURSIVE RuleFrom(_, _, _, _)
RuleFrom(bs, i, t, D) ==
    IF i > Len(bs) THEN <<>>
    ELSE LET mark == t >= D
         IN  <<mark>> \o RuleFrom(bs, i + 1, (IF mark THEN t - D ELSE t) + DurUnits(bs, i, D), D)

\* C11: update_measures marks as a measure start every beat at which the
\* running total has reached or exceeded one whole note, and only those,
\* the total being cut by one measure there.
C11_MeasureRule ==
    (op.name = "update_measures" /\ ~panicked) =>
        LET bs == song[1].beats
        IN  song[1].measure_i = RuleFrom(bs, 1, DenLcm(bs), DenLcm(bs))

\* No beat crosses a measure boundary: none starts before a whole number of
\* measures and ends after it.
Tiles(bs) ==
    LET D == DenLcm(bs)
    IN  \A i \in 1..Len(bs) :
            Preceding(bs, i, D) \div D = (Preceding(bs, i + 1, D) - 1) \div D

\* C12: on a track that tiles whole-note measures, update_measures marks
\* the beats whose preceding durations sum to a whole number of measures,
\* and no others.
C12_TilingMeasures ==
    (op.name = "update_measures" /\ Tiles(song[1].beats)) =>
        LET bs == song[1].beats
            D  == DenLcm(bs)
        IN  /\ ~panicked
            /\ Len(song[1].measure_i) = Len(bs)
            /\ \A i \in 1..Len(bs) :
                   song[1].measure_i[i] <=> (Preceding(bs, i, D) % D = 0)

\* The Cursor operations that change a duration or the beat sequence.
StructuralOps ==
    {"seek_beat", "set_duration", "delete_beat", "delete_beats",
     "insert_beat", "insert_beats", "replace_beats"}

\* C13: when a Cursor operation that changes a duration or the beat
\* sequence has returned, the measure index of the addressed track is what
\* a full recompute over its beats gives.
C13_IndexFresh ==
    (op.name \in StructuralOps /\ ~panicked) =>
        track(cur, song).measure_i = measures_from(beats(cur, song), 1, Duration_new(1, 1))

\* A set_duration has moved a measure start: the track now holds two halves
\* and a third beat, which starts the second measure.
C13_Witness ==
    /\ op.name = "set_duration"
    /\ ~panicked
    /\ Len(beats(cur, song)) = 3
    /\ track(cur, song).measure_i = <<TRUE, FALSE, TRUE>>

\* C14: in every state, from Song::new() on, the measure index of each track
\* has one entry per beat.
C14_IndexLength ==
    \A t \in 1..Len(song) : Len(song[t].measure_i) = Len(song[t].beats)

\* ---------------------------------------------------- Duration: claims

\* A call is over and has given back a Duration.
Returns ==
    /\ op.name \notin {"args", "text", "pair", "cmp", "eq"}
    /\ op.ret[1] = "Ok"

\* C15: every Duration a constructor or an arithmetic operation returns is
\* in lowest terms with a non-zero denominator, zero being (0, 1).
C15_LowestTerms ==
    Returns =>
        LET d == op.ret[2]
        IN  /\ d[2] # 0
            /\ Gcd(d[1], d[2]) = 1

\* C16: (a + b) - b is a, and a - b is the zero duration (0, 1) whenever
\* a <= b, a - a included.
C16_ArithmeticLaws ==
    /\ op.name = "add_sub" => op.ret = Ok(op.args.a)
    /\ (op.name = "sub" /\ op.args.a[1] * op.args.b[2] <= op.args.b[1] * op.args.a[2]) =>
            op.ret = Ok(Duration_new(0, 1))

\* The fraction n/d (d > 0) in lowest terms.
Reduced(n, d) == IF n = 0 THEN <<0, 1>> ELSE <<n \div Gcd(n, d), d \div Gcd(n, d)>>

\* What the text is worth: 1/base, times 3/2 with a dot, times the count,
\* times 2/tuplet.
TextValue(t) ==
    Reduced((IF t.count # None THEN t.count[1] ELSE 1)
                * (IF t.is_dotted THEN 3 ELSE 1) * (IF t.tup # None THEN 2 ELSE 1),
            t.base * (IF t.is_dotted THEN 2 ELSE 1) * (IF t.tup # None THEN t.tup[1] ELSE 1))

\* C17: a text with a base and a tuplet of at least 1 whose value a Duration
\* can hold parses to that value: 1/base, times 3/2 with a trailing dot,
\* times a leading count, times 2/tuplet.
C17_ParseValues ==
    (/\ op.name = "from_str"
     /\ op.args.base >= 1 /\ op.args.base < U16
     /\ op.args.count # None => op.args.count[1] < U16
     /\ op.args.tup # None => (op.args.tup[1] >= 1 /\ op.args.tup[1] < U16)
     /\ TextValue(op.args)[1] < U16 /\ TextValue(op.args)[2] < U16) =>
        op.ret = Ok(TextValue(op.args))

\* C18: from_str gives back a Duration or an error value on every text of
\* the grammar; it does not panic.
C18_ParseNoPanic ==
    op.name = "from_str" => op.ret # Panic

\* ------------------------------------------------ copy and paste: claims

\* C19: in every Beat of the Song each string index appears in at most one
\* (string, note) pair.
C19_NoteUniqueness ==
    \A t \in 1..Len(song) : \A i \in 1..Len(song[t].beats) :
        LET notes == song[t].beats[i].notes
        IN  \A x, y \in 1..Len(notes) : x # y => notes[x][1] # notes[y][1]

\* A set_note on a string that already held a note, in a beat that holds
\* notes on two strings.
C19_Witness ==
    /\ op.name = "set_note"
    /\ op.had
    /\ ~panicked
    /\ Len(At(beats(cur, song), cur.beat).notes) = 2

\* C20: a paste of a copied Beat with the cursor on a beat: not in place, the
\* copy is inserted at cursor.beat, the beats before it stay and those from
\* cursor.beat on move up by one; in place, the copy replaces the beat at
\* cursor.beat and no other beat changes.
C20_PasteBeat ==
    [][(op'.name = "paste" /\ buffer.kind = "Beat" /\ ~NoBeat(cur, song)) =>
        LET old == beats(cur, song)
            new == beats(cur', song')
            b   == cur.beat
        IN  /\ ~panicked'
            /\ cur' = cur
            /\ At(new, b) = buffer.beat
            /\ \A i \in 0..(b - 1) : At(new, i) = At(old, i)
            /\ IF op'.in_place
               THEN /\ Len(new) = Len(old)
                    /\ \A i \in (b + 1)..(Len(old) - 1) : At(new, i) = At(old, i)
               ELSE /\ Len(new) = Len(old) + 1
                    /\ \A i \in b..(Len(old) - 1) : At(new, i + 1) = At(old, i)]_vars

\* On a new track: seek_beat(+3), set_note(Fret 5) on string 2, copy_beat,
\* seek_beat(-3), paste not in place: 5 beats, the copy at beat 0 and the
\* copied beat now at index 4.
C20_Witness ==
    /\ op.name = "paste"
    /\ ~op.in_place
    /\ buffer = Buffer_Beat([dur |-> Duration_new(1, 1), notes |-> <<<<2, Fret(5)>>>>])
    /\ cur.beat = 0
    /\ Len(beats(cur, song)) = 5
    /\ At(beats(cur, song), 0).notes = <<<<2, Fret(5)>>>>
    /\ At(beats(cur, song), 4).notes = <<<<2, Fret(5)>>>>
    /\ \A i \in 1..3 : At(beats(cur, song), i).notes = <<>>

\* A copy has been taken: copy_note, copy_beat or copy_beats.
CopyOps == {"copy_note", "copy_beat", "copy_beats"}

\* C21: copy_note, copy_beat and copy_beats(count) leave the Song and the
\* Cursor as they were; copy_beats gives Buffer::Empty exactly when
\* cursor.beat + count is more than the beat count, and otherwise the count
\* beats from cursor.beat on.
C21_CopyFrame ==
    [][(op'.name \in CopyOps /\ ~NoBeat(cur, song)) =>
        /\ song' = song
        /\ cur' = cur
        /\ ~panicked'
        /\ op'.name = "copy_beats" =>
            LET bs == beats(cur, song)
                n  == op'.count
            IN  /\ (buffer'.kind = "Empty") <=> (cur.beat + n > Len(bs))
                /\ cur.beat + n <= Len(bs) =>
                    /\ buffer'.kind = "Beats"
                    /\ Len(buffer'.beats) = n
                    /\ \A i \in 0..(n - 1) :
                           At(buffer'.beats, i) = At(bs, cur.beat + i)]_vars

\* copy_beats(2) has copied two beats from the middle of the track, the
\* first of them holding a note.
C21_Witness ==
    /\ op.name = "copy_beats"
    /\ op.count = 2
    /\ cur.beat >= 1
    /\ buffer.kind = "Beats"
    /\ Len(buffer.beats) = 2
    /\ buffer.beats[1].notes # <<>>
    /\ buffer.beats[1] = At(beats(cur, song), cur.beat)

\* ------------------------------------------------ ranged edits: claims

\* The edits over a range of beats from the cursor on.
RangeOps == {"clear_beats", "delete_beats", "replace_beats"}

\* C22: clear_beats(count), delete_beats(count) or replace_beats(beats)
\* called with cursor.beat + count past the end of the track returns (an
\* error, no panic) and leaves the Song as it was.
C22_NoPartialMutation ==
    [][(op'.name \in RangeOps /\ cur.beat + op'.count > Len(beats(cur, song))) =>
        /\ ~panicked'
        /\ song' = song]_vars

\* ------------------------------------------------ string cursor: claims

\* C23: seek_string(delta) sets cursor.string to string + delta clamped to
\* [0, string_count - 1]; after any sequence of seek_string calls
\* cursor.string is less than the string count of the track.
C23_SeekString ==
    /\ [][op'.name = "seek_string" =>
            /\ ~panicked'
            /\ cur'.string =
                   clamp(cur.string + op'.dire, 0, track(cur, song).string_count - 1)]_vars
    /\ [](cur.string < track(cur, song).string_count)

\* A seek_string(7) on a track of 6 strings has stopped on the last string.
C23_Witness ==
    /\ op.name = "seek_string"
    /\ op.dire = 7
    /\ ~panicked
    /\ track(cur, song).string_count = 6
    /\ cur.string = 5

\* ------------------------------------------------ measure seeking: claims

\* The entry of the measure index l for beat i is there and true.
Starts(l, i) == i >= 0 /\ i < Len(l) /\ At(l, i)

\* The smallest index after b that starts a measure, or the last index.
NextStart(l, b, last) ==
    IF \E i \in (b + 1)..last : Starts(l, i)
    THEN CHOOSE i \in (b + 1)..last :
            Starts(l, i) /\ \A j \in (b + 1)..(i - 1) : ~Starts(l, j)
    ELSE last

\* The largest index before b that starts a measure, or 0.
PrevStart(l, b) ==
    IF \E i \in 0..(b - 1) : Starts(l, i)
    THEN CHOOSE i \in 0..(b - 1) :
            Starts(l, i) /\ \A j \in (i + 1)..(b - 1) : ~Starts(l, j)
    ELSE 0

\* C24: seek_next_measure moves cursor.beat to the smallest index after it
\* whose measure-index entry is true, or to the last beat index if there is
\* none; seek_prev_measure moves it to the largest index before it whose
\* entry is true, or to 0; at the last index (at 0) the cursor stays.
C24_MeasureSeek ==
    [][LET l    == track(cur, song).measure_i
           last == Len(beats(cur, song)) - 1
       IN  /\ op'.name = "seek_next_measure" =>
                /\ ~panicked'
                /\ cur'.beat = IF cur.beat = last THEN cur.beat
                               ELSE NextStart(l, cur.beat, last)
           /\ op'.name = "seek_prev_measure" =>
                /\ ~panicked'
                /\ cur'.beat = IF cur.beat = 0 THEN 0 ELSE PrevStart(l, cur.beat)]_vars

\* ------------------------------------------------------ scrolling: claims

\* C25: seek_scroll(delta) sets scroll to scroll + delta clamped to
\* [0, beat_count - 1] and then clamps beat into
\* [scroll, scroll + view_width - 1]; a beat that was an index of the track
\* before the call is one after it.
C25_SeekScroll ==
    [][op'.name = "seek_scroll" =>
        LET n == Len(beats(cur, song))
        IN  /\ ~panicked'
            /\ cur'.scroll = clamp(cur.scroll + op'.dire, 0, n - 1)
            /\ cur'.beat = clamp(cur.beat, cur'.scroll, cur'.scroll + op'.w - 1)
            /\ cur.beat < n => cur'.beat < n]_vars

\* --------------------------------------------- Duration comparison: claims

\* C26: a/b < c/d exactly when a * d < c * b, and a/b == c/d exactly when
\* a * d = c * b, the products taken as exact integers: the comparison of
\* any two Durations returns that answer and does not panic.
C26_ExactComparison ==
    /\ op.name = "cmp" =>
            op.ret = Ok(Ordering(op.args.a[1] * op.args.b[2], op.args.b[1] * op.args.a[2]))
    /\ op.name = "eq" =>
            op.ret = Ok(op.args.a[1] * op.args.b[2] = op.args.b[1] * op.args.a[2])

\* ----------------------------------------------- notes of a Beat: claims

\* The notes a Beat holds on a string, as a set.
NotesOn(beat, string) ==
    {beat.notes[i][2] : i \in {j \in 1..Len(beat.notes) : beat.notes[j][1] = string}}

\* C27: after set_note(s, n) the note on string s is n, the notes on the
\* other strings are as before and the pairs that were there keep their
\* places (overwritten in place, else appended at the end); after
\* del_note(s) string s has no note and the notes on the other strings are
\* as before; del_note on a string without a note changes nothing.
C27_NoteEdits ==
    [][LET old == TheBeat(song)
           new == TheBeat(song')
           s   == op'.string
           Others == \A t \in BeatStrings \ {s} : NotesOn(new, t) = NotesOn(old, t)
       IN  /\ op'.name = "set_note" =>
                /\ NotesOn(new, s) = {op'.note}
                /\ Others
                /\ \A i \in 1..Len(old.notes) :
                       new.notes[i] = IF old.notes[i][1] = s THEN <<s, op'.note>>
                                      ELSE old.notes[i]
                /\ IF NotesOn(old, s) = {}
                   THEN new.notes = Append(old.notes, <<s, op'.note>>)
                   ELSE Len(new.notes) = Len(old.notes)
           /\ op'.name = "del_note" =>
                /\ NotesOn(new, s) = {}
                /\ Others
                /\ NotesOn(old, s) = {} => new = old]_vars

\* del_note(0) has removed the first of three pairs: the last one, on
\* string 2, has taken its place before the pair on string 1.
C27_Witness ==
    /\ op.name = "del_note"
    /\ op.string = 0
    /\ op.had
    /\ TheBeat(song).notes = <<<<2, NoteX>>, <<1, Fret(5)>>>>

\* ------------------------------------------- pasting a beat range: claims

\* C28: insert_beats(in_place = false, src) turns the beats B into
\* B[0..beat] ++ src ++ B[beat..]; insert_beats(in_place = true, src) turns
\* them into B[0..beat] ++ src ++ B[beat+1..]; replace_beats(src) overwrites
\* the |src| beats from the cursor on and leaves the beat count as it was.
C28_PasteRange ==
    [][LET B   == beats(cur, song)
           B2  == beats(cur', song')
           b   == cur.beat
           src == buffer.beats
           n   == Len(src)
       IN  /\ (/\ op'.name = "paste"
               /\ buffer.kind = "Beats"
               /\ IF op'.in_place THEN b < Len(B) ELSE b <= Len(B)) =>
                LET gone == IF op'.in_place THEN 1 ELSE 0
                IN  /\ ~panicked'
                    /\ Len(B2) = Len(B) + n - gone
                    /\ \A i \in 0..(b - 1) : At(B2, i) = At(B, i)
                    /\ \A j \in 0..(n - 1) : At(B2, b + j) = At(src, j)
                    /\ \A i \in (b + gone)..(Len(B) - 1) : At(B2, i + n - gone) = At(B, i)
           /\ (op'.name = "replace_beats" /\ b + n <= Len(B)) =>
                /\ ~panicked'
                /\ Len(B2) = Len(B)
                /\ \A i \in 0..(Len(B) - 1) :
                       At(B2, i) = IF i >= b /\ i < b + n THEN At(src, i - b) ELSE At(B, i)]_vars

\* Two beats copied from the start of a 4-beat track, the first holding a
\* note, have been pasted in place over its last beat: 5 beats.
C28_Witness ==
    /\ op.name = "paste"
    /\ op.in_place
    /\ ~panicked
    /\ buffer.kind = "Beats"
    /\ Len(buffer.beats) = 2
    /\ buffer.beats[1].notes # <<>>
    /\ buffer.beats[2].notes = <<>>
    /\ cur.beat = 3
    /\ Len(beats(cur, song)) = 5
    /\ Slice(beats(cur, song), 3, 5) = buffer.beats
    /\ Slice(beats(cur, song), 0, 2) = buffer.beats

\* ------------------------------------------------ parsing a base: claims

\* n is a power of two: 1, 2, 4, 8, ...
RECURSIVE IsPow2(_)
IsPow2(n) == n = 1 \/ (n > 1 /\ n % 2 = 0 /\ IsPow2(n \div 2))

\* C29: a text whose base is 0 or no power of two is rejected: from_str
\* returns an error of the ParseError kind and no Duration.
C29_InvalidBase ==
    (op.name = "from_str" /\ ~IsPow2(op.args.base)) => op.ret = ParseError

\* ------------------------------------------------------ seek_beat: claims

\* C30: a seek_beat whose delta takes the beat index below 0 sets
\* cursor.beat to 0; a seek_beat whose target index is inside the track
\* appends no beat and leaves the beats, durations and notes, as they were.
C30_SeekBeatFrame ==
    [][op'.name = "seek_beat" =>
        LET target == cur.beat + op'.dire
        IN  /\ target < 0 =>
                /\ ~panicked'
                /\ cur'.beat = 0
            /\ Max(target, 0) < Len(beats(cur, song)) =>
                /\ ~panicked'
                /\ cur'.beat = Max(target, 0)
                /\ beats(cur', song') = beats(cur, song)]_vars

\* ----------------------------------------------- History pointer: claims

\* C31: after any sequence of push, undo and redo calls, those that fail
\* included, 0 <= future <= number of entries in the queue.
C31_PointerInRange ==
    /\ hist.future >= 0
    /\ hist.future <= Len(hist.history)

\* An undo has failed on a full queue of two or more entries, all of them
\* undone: future is the number of entries.
C31_Witness ==
    /\ hop = "undo"
    /\ hret = None
    /\ hist.size >= 2
    /\ Len(hist.history) = hist.size
    /\ hist.future = hist.size

\* ---------------------------------------------- undo/redo ordering: claims

\* C32: after pushes of a1..an, n no more than the capacity, k <= n undos in
\* a row return an, a(n-1), .., a(n-k+1); the k redos that follow return
\* a(n-k+1), .., an; and after them the History, queue and future, is as it
\* was before the first undo.
C32_UndoRedoOrder ==
    LET n == Len(op.pushed)
        k == Len(op.undone)
    IN  (n <= hist.size /\ k <= n) =>
            /\ \A i \in 1..k : op.undone[i] = Some(op.pushed[n - i + 1])
            /\ \A i \in 1..Len(op.redone) : op.redone[i] = Some(op.pushed[n - k + i])
            /\ (k >= 1 /\ Len(op.redone) = k) => hist = op.start

\* Three pushes on a History of capacity 3, two undos, two redos.
C32_Witness ==
    /\ hist.size = 3
    /\ Len(op.pushed) = 3
    /\ Len(op.undone) = 2
    /\ Len(op.redone) = 2
    /\ hop = "redo"

\* --------------------------------------------- first measure start: claims

\* C33: after update_measures has returned on a track of one beat or more,
\* beat 0 is marked as a measure start, whatever the durations of the beats.
C33_FirstBeatStarts ==
    (op.name = "update_measures" /\ ~panicked) =>
        /\ Len(song[1].measure_i) >= 1
        /\ song[1].measure_i[1] = TRUE

\* update_measures has returned on a track of three beats whose first beat
\* is 1/256 long and whose other beats are not marked.
C33_Witness ==
    /\ op.name = "update_measures"
    /\ ~panicked
    /\ Len(song[1].beats) = 3
    /\ song[1].beats[1].dur = Duration_new(1, 256)
    /\ song[1].measure_i = <<TRUE, FALSE, FALSE>>

\* ------------------------------------------------- confined edits: claims

\* The edits that touch notes only.
NoteOnlyOps == {"set_note", "set_notes", "clear_note", "clear_beat", "clear_beats"}

\* The edits that change a duration or the beat sequence at the cursor.
BeatOps ==
    {"set_duration", "delete_beat", "delete_beats", "insert_beat", "insert_beats",
     "replace_beats"}

\* Every track but the one the cursor is on is the same before and after.
OtherTracksKept ==
    /\ Len(song') = Len(song)
    /\ \A t \in 1..Len(song) : t # cur.track + 1 => song'[t] = song[t]

\* C34: set_note, set_notes, clear_note, clear_beat and clear_beats(count)
\* called in range change nothing but the notes of the beat(s) addressed on
\* the track addressed: the number of beats, the duration of every beat, the
\* measure index, the other beats, the other tracks and the Cursor stay.
C34_NoteEditsConfined ==
    [][ LET n  == IF op'.name = "clear_beats" THEN op'.count ELSE 1
            bs == beats(cur, song)
        IN  (op'.name \in NoteOnlyOps /\ cur.beat + n <= Len(bs)) =>
                /\ ~panicked'
                /\ cur' = cur
                /\ OtherTracksKept
                /\ track(cur, song').string_count = track(cur, song).string_count
                /\ track(cur, song').measure_i = track(cur, song).measure_i
                /\ Len(beats(cur, song')) = Len(bs)
                /\ \A i \in 1..Len(bs) :
                       /\ beats(cur, song')[i].dur = bs[i].dur
                       /\ (i <= cur.beat \/ i > cur.beat + n) => beats(cur, song')[i] = bs[i]
      ]_vars

\* clear_beats(2) has returned on the second track, whose first beat is 1/2
\* long, while the first track holds a note.
C34_Witness ==
    /\ op.name = "clear_beats"
    /\ op.count = 2
    /\ ~panicked
    /\ Len(song) = 2
    /\ cur.track = 1
    /\ cur.beat = 0
    /\ Len(song[2].beats) = 2
    /\ song[2].beats[1].dur = Duration_new(1, 2)
    /\ song[1].beats[1].notes # <<>>

\* C35: set_duration, delete_beat, delete_beats, insert_beat, insert_beats
\* and replace_beats leave every track other than cursor.track as it was and
\* leave scroll, track, beat and string of the Cursor as they were.
C35_BeatEditsConfined ==
    [][ op'.name \in BeatOps => (OtherTracksKept /\ cur' = cur) ]_vars

\* delete_beat has returned on the first track with the cursor on its
\* second beat, while the second track is as "t add" made it, its measure
\* index not built.
C35_Witness ==
    /\ op.name = "delete_beat"
    /\ ~panicked
    /\ Len(song) = 2
    /\ cur.track = 0
    /\ cur.beat = 1
    /\ Len(song[1].beats) = 1
    /\ song[2] = Track_new

====
